---- MODULE Spec2Model ----
(***************************************************************************)
(* A model of the bundle-assembly handler `func` of src/main.rs.           *)
(*                                                                         *)
(* Each element of Envs is one execution environment of the handler: it    *)
(* serves one event at a time (lambda_runtime::run calls func once per     *)
(* event).  Environments share the scratch file system mounted at          *)
(* /mnt/phdb and the output bucket phbundledimages; everything else is     *)
(* local to the running invocation.                                        *)
(*                                                                         *)
(* Every fallible call of func (storage, renderer, archive writer, scratch *)
(* file) is one step with a nondeterministic outcome.  A character is a    *)
(* one-character string; the two non-ASCII separators of SEPARATOR_PATTERN *)
(* are written FWCOMMA (U+FF0C) and IDCOMMA (U+3001).                      *)
(***************************************************************************)
EXTENDS Integers, Sequences, FiniteSets, TLC

VARIABLES
    inv,      \* inv[e]: the locals of the invocation environment e is serving
    dir,      \* scratch directory: path -> inode number, 0 when no such file
    inodes,   \* inode number -> file content, a sequence of archive records
    out,      \* bucket phbundledimages: key -> Some(object body), None if none
    events    \* number of events delivered so far

vars == <<inv, dir, inodes, out, events>>

----------------------------------------------------------------------------
(* Bounds *)

MaxCount == 2        \* largest image_count a request carries
MaxEvents == 2       \* events delivered in one behaviour
MaxLen == 4          \* longest size_zh of the render-stage specification

Envs == {1, 2}
Codes == {"A1"}
Inos == 1..MaxEvents

----------------------------------------------------------------------------
(* JSON values of the request payload (serde_json::Value) *)

Absent == [t |-> "absent"]          \* payload.get(..) = None
JNull == [t |-> "null"]
JNum(n) == [t |-> "num", n |-> n]
JStr(s) == [t |-> "str", s |-> s]
JSize(table, zh) == [t |-> "obj", size_table |-> table, size_zh |-> zh]
JBad == [t |-> "obj_bad"]           \* an object without the size_zh field

None == [some |-> FALSE]
Some(v) == [some |-> TRUE, v |-> v]

FWCOMMA == "FWCOMMA"
IDCOMMA == "IDCOMMA"
SEPARATOR_PATTERN == {FWCOMMA, IDCOMMA, ","}

\* str::replace(SEPARATOR_PATTERN, " ")
RECURSIVE ReplaceSep(_)
ReplaceSep(s) ==
    IF s = <<>> THEN <<>>
    ELSE <<IF Head(s) \in SEPARATOR_PATTERN THEN " " ELSE Head(s)>>
             \o ReplaceSep(Tail(s))

\* char::is_whitespace, for the characters the requests carry
Whitespace == {" ", "\t"}

RECURSIVE TrimStart(_)
TrimStart(s) ==
    IF s # <<>> /\ Head(s) \in Whitespace THEN TrimStart(Tail(s)) ELSE s

RECURSIVE TrimEnd(_)
TrimEnd(s) ==
    IF s # <<>> /\ s[Len(s)] \in Whitespace
        THEN TrimEnd(SubSeq(s, 1, Len(s) - 1)) ELSE s

\* str::trim
Trim(s) == TrimEnd(TrimStart(s))

\* str::split(' '): every space ends a piece, empty pieces are kept
RECURSIVE SplitFrom(_, _)
SplitFrom(s, cur) ==
    IF s = <<>> THEN <<cur>>
    ELSE IF Head(s) = " " THEN <<cur>> \o SplitFrom(Tail(s), <<>>)
    ELSE SplitFrom(Tail(s), Append(cur, Head(s)))

Split(s) == SplitFrom(s, <<>>)

\* table_head of the Table variant
TableHead(size_zh) == Split(Trim(ReplaceSep(size_zh)))

\* text of the SingleLine variant
LineText(size_zh) == ReplaceSep(Trim(size_zh))

----------------------------------------------------------------------------
(* Names, keys and payloads *)

PhotoKey(code, no) == <<code, "_", no, ".jpeg">>
PhotoEntryName(code, n) == <<code, "_", n, ".jpg">>
SizeEntryName(code) == <<code, "_size.jpg">>
ZipFilePath(code) == <<"/mnt/phdb/", code, "_images.zip">>
OutKey(code) == <<code, ".zip">>

Paths == {ZipFilePath(c) : c \in Codes}
OutKeys == {OutKey(c) : c \in Codes}

\* the bytes stored in bucket phitemspics under a photo key
PhotoBytes(code, no) == <<"jpeg", code, no>>
FontBytes == <<"ttf", "TaipeiSansTCBeta-Light.ttf">>
TableImage(head, body, font) == <<"table_image", head, body, font>>
TextImage(text, font) == <<"text_image", text, font>>

----------------------------------------------------------------------------
(* Request payloads *)

SizeZhs == { <<" ", "S", FWCOMMA, " ", "M", " ">> }
SizeTables == { [head |-> <<"x">>, body |-> <<<<"1", "2">>>>] }

Bodies ==
    {Absent, JNull, JBad}
      \cup {JSize(None, zh) : zh \in SizeZhs}
      \cup {JSize(Some(tb), zh) : zh \in SizeZhs, tb \in SizeTables}

Payloads ==
    [item_code : {Absent, JNum(7)} \cup {JStr(c) : c \in Codes},
     image_count : {Absent, JNum(-1), JStr("1")} \cup {JNum(n) : n \in 0..MaxCount},
     body : Bodies]

\* serde_json::Value::to_string followed by str::parse::<u32>: a JSON string
\* prints with its quotes and a negative number with its sign, neither parses
ParseU32(v) ==
    IF v.t = "num" /\ v.n >= 0 THEN Some(v.n) ELSE None

----------------------------------------------------------------------------
(* The locals of an invocation *)

Idle ==
    [pc |-> "Idle",
     payload |-> [item_code |-> Absent, image_count |-> Absent, body |-> Absent],
     item_code |-> "",
     image_count |-> 0,
     item_size_opt |-> None,
     no |-> 0,
     image_bytes |-> <<>>,
     font_bytes |-> <<>>,
     table_base |-> <<>>,
     size_image_bytes |-> <<>>,
     zip_file |-> 0,        \* inode of the open scratch file, 0 when not open
     pos |-> 0,             \* write position of zip_file
     zip_files |-> <<>>,    \* entry names the ZipWriter has started
     i |-> 0,               \* enumerate() index of the archive loop
     reader |-> 0,          \* inode opened for reading back
     zip_file_buf |-> <<>>,
     response |-> None,     \* the value func returns
     pending |-> None,      \* the response to return after remove_file
     out_before |-> [k \in OutKeys |-> None],  \* the bucket when the event arrived
     log |-> <<>>]          \* the calls made so far, with their outcomes

Call(op, arg, res) == [op |-> op, arg |-> arg, res |-> res]

Response(result, message) == Some([result |-> result, message |-> message])

Running(e) == inv[e].pc \notin {"Idle", "Done", "Failed", "Panicked"}

Init ==
    /\ inv = [e \in Envs |-> Idle]
    /\ dir = [p \in Paths |-> 0]
    /\ inodes = [k \in Inos |-> <<>>]
    /\ out = [k \in OutKeys |-> None]
    /\ events = 0

----------------------------------------------------------------------------
(* Scratch files *)

Hole == <<"hole">>

RECURSIVE Holes(_)
Holes(n) == IF n <= 0 THEN <<>> ELSE <<Hole>> \o Holes(n - 1)

\* a write of one record at position pos of a file (positions count records)
WriteAt(content, pos, unit) ==
    IF pos < Len(content) THEN [content EXCEPT ![pos + 1] = unit]
    ELSE content \o Holes(pos - Len(content)) \o <<unit>>

Referenced(k, d, v) ==
    \/ \E p \in Paths : d[p] = k
    \/ \E e \in Envs : v[e].zip_file = k \/ v[e].reader = k

\* an inode lives while a path or an open handle refers to it
Sweep(nodes, d, v) ==
    [k \in Inos |-> IF Referenced(k, d, v) THEN nodes[k] ELSE <<>>]

FreeIno == CHOOSE k \in Inos : ~Referenced(k, dir, inv) /\
               \A j \in Inos : ~Referenced(j, dir, inv) => k <= j

----------------------------------------------------------------------------
(* Leaving func *)

Logged(s, op, arg, res) == [s EXCEPT !.log = Append(@, Call(op, arg, res))]

\* return Ok(json!(Response {..})): the locals, open files included, are dropped
Return(s, result, message) ==
    [s EXCEPT !.pc = IF result = "ok" THEN "Done" ELSE "Failed",
              !.response = Response(result, message),
              !.zip_file = 0, !.reader = 0]

\* a failed unwrap(): func unwinds without building a Response
Panic(s) == [s EXCEPT !.pc = "Panicked", !.zip_file = 0, !.reader = 0]

\* the error arms that call remove_file before they return
Cleanup(s, result, message) ==
    [s EXCEPT !.pc = "Remove", !.pending = Response(result, message)]

----------------------------------------------------------------------------
(* Request decoding and the retrieval loop *)

\* variant: an invocation that retrieved no photo is ended as a failure
AfterLoop_EmptyFails(s) ==
    IF s.image_bytes = <<>> THEN Return(s, "error", "error when get item image")
    ELSE IF ~s.item_size_opt.some THEN [s EXCEPT !.pc = "NB_Create"]
    ELSE [s EXCEPT !.pc = "GetFont"]

\* the arm of the match on item_size_opt / size_table reached after the loop
AfterLoop(s) ==
    IF ~s.item_size_opt.some THEN [s EXCEPT !.pc = "NB_Create"]
    ELSE [s EXCEPT !.pc = "GetFont"]

\* for no in 1..=image_count
LoopHead(s, n) ==
    IF n <= s.image_count THEN [s EXCEPT !.pc = "GetObject", !.no = n]
    ELSE AfterLoop(s)

Decoded(s) ==
    LET p == s.payload IN
    IF p.item_code.t = "absent" THEN Return(s, "error", "item_code not show")
    ELSE IF p.item_code.t # "str" THEN Panic(s)
    ELSE IF p.image_count.t = "absent"
        THEN Return(s, "error", "image_count not show")
    ELSE IF ~ParseU32(p.image_count).some
        THEN Return(s, "error", "error when parse item count")
    ELSE IF p.body.t = "absent" THEN Panic(s)
    ELSE IF p.body.t \notin {"null", "obj"}
        THEN Return(s, "error", "error when parse body field error")
    ELSE LoopHead([s EXCEPT
             !.item_code = p.item_code.s,
             !.image_count = ParseU32(p.image_count).v,
             !.item_size_opt =
                 IF p.body.t = "null" THEN None
                 ELSE Some([size_table |-> p.body.size_table,
                            size_zh |-> p.body.size_zh])], 1)

Invoke(e, requests) ==
    /\ inv[e].pc = "Idle"
    /\ events < MaxEvents
    /\ \E p \in requests :
         inv' = [inv EXCEPT ![e] =
                   [Idle EXCEPT !.pc = "Start", !.payload = p,
                                !.out_before = out]]
    /\ events' = events + 1
    /\ UNCHANGED <<dir, inodes, out>>

Decode(e) ==
    /\ inv[e].pc = "Start"
    /\ inv' = [inv EXCEPT ![e] = Decoded(inv[e])]
    /\ UNCHANGED <<dir, inodes, out, events>>

\* variant: an absent slot is treated as a failure
AfterGetObject_AbsentFatal(s, res) ==
    LET l == Logged(s, "get_object", PhotoKey(s.item_code, s.no), res) IN
    IF res = "ok" THEN [l EXCEPT !.pc = "ReadBody"]
    ELSE Return(l, "error", "error when get item image")

\* variant: every get_object error is skipped like an absent slot
AfterGetObject_ErrorSkipped(s, res) ==
    LET l == Logged(s, "get_object", PhotoKey(s.item_code, s.no), res) IN
    IF res = "ok" THEN [l EXCEPT !.pc = "ReadBody"]
    ELSE LoopHead(l, s.no + 1)

\* variant: a failed get_object is issued a second time
AfterGetObject_Retry(s, res) ==
    LET l == Logged(s, "get_object", PhotoKey(s.item_code, s.no), res) IN
    IF res = "ok" THEN [l EXCEPT !.pc = "ReadBody"]
    ELSE IF res = "NoSuchKey" THEN LoopHead(l, s.no + 1)
    ELSE IF \A k \in 1..Len(s.log) : s.log[k].res # "err" THEN l
    ELSE Return(l, "error", "error when get item image")

AfterGetObject(s, res) ==
    LET l == Logged(s, "get_object", PhotoKey(s.item_code, s.no), res) IN
    IF res = "ok" THEN [l EXCEPT !.pc = "ReadBody"]
    ELSE IF res = "NoSuchKey" THEN LoopHead(l, s.no + 1)
    ELSE Return(l, "error", "error when get item image")

GetObject(e) ==
    /\ inv[e].pc = "GetObject"
    /\ \E res \in {"ok", "NoSuchKey", "err"} :
         inv' = [inv EXCEPT ![e] = AfterGetObject(inv[e], res)]
    /\ UNCHANGED <<dir, inodes, out, events>>

\* variant: the photo is put in front of image_bytes
AfterReadBody_Prepend(s, res) ==
    LET l == Logged(s, "read_body", PhotoKey(s.item_code, s.no), res) IN
    IF res = "ok"
        THEN LoopHead([l EXCEPT !.image_bytes =
                          <<PhotoBytes(s.item_code, s.no)>> \o @], s.no + 1)
    ELSE Return(l, "error", "error when read image bytes")

AfterReadBody(s, res) ==
    LET l == Logged(s, "read_body", PhotoKey(s.item_code, s.no), res) IN
    IF res = "ok"
        THEN LoopHead([l EXCEPT !.image_bytes =
                          Append(@, PhotoBytes(s.item_code, s.no))], s.no + 1)
    ELSE Return(l, "error", "error when read image bytes")

ReadBody(e) ==
    /\ inv[e].pc = "ReadBody"
    /\ \E res \in {"ok", "err"} :
         inv' = [inv EXCEPT ![e] = AfterReadBody(inv[e], res)]
    /\ UNCHANGED <<dir, inodes, out, events>>

----------------------------------------------------------------------------
(* Steps on the scratch file shared by both branches *)

\* for (i, image_byte) in image_bytes.into_iter().enumerate()
ArchiveLoop(s, body, after) ==
    IF s.i < Len(s.image_bytes) THEN [s EXCEPT !.pc = body]
    ELSE [s EXCEPT !.pc = after]

\* variant: the no-body branch goes on to the size entry of the body branch
NB_Loop_WithSize(s) == ArchiveLoop([s EXCEPT !.i = 0], "NB_StartFile", "B_SizeStart")

\* the first turn of the archive loop of the no-body branch
NB_Loop(s) == ArchiveLoop([s EXCEPT !.i = 0], "NB_StartFile", "NB_Finish")

\* variant: the body branch finishes the archive without the size entry
B_Loop_NoSize(s) == ArchiveLoop([s EXCEPT !.i = 0], "B_StartFile", "B_Finish")

\* the first turn of the archive loop of the body branch
B_Loop(s) == ArchiveLoop([s EXCEPT !.i = 0], "B_StartFile", "B_SizeStart")

\* File::create: a new file, or the existing file at that path truncated
Create(e, branch) ==
    \E res \in {"ok", "err"} :
      LET s == inv[e]
          path == ZipFilePath(s.item_code)
          l == Logged(s, "File::create", path, res)
          k == IF dir[path] = 0 THEN FreeIno ELSE dir[path]
      IN IF res = "ok"
         THEN /\ dir' = [dir EXCEPT ![path] = k]
              /\ inodes' = [inodes EXCEPT ![k] = <<>>]
              /\ inv' = [inv EXCEPT ![e] =
                   LET t == [l EXCEPT !.zip_file = k, !.pos = 0] IN
                   IF branch = "NB" THEN NB_Loop(t) ELSE B_Loop(t)]
         ELSE /\ inv' = [inv EXCEPT ![e] =
                   Return(l, "error", "error when create zip file")]
              /\ UNCHANGED <<dir, inodes>>

\* a successful write of the ZipWriter through the open scratch file
ZipWrite(e, t, unit) ==
    /\ inv' = [inv EXCEPT ![e] = [t EXCEPT !.pos = @ + 1]]
    /\ inodes' = [inodes EXCEPT ![t.zip_file] = WriteAt(@, t.pos, unit)]

\* a step that writes no file; returning closes the files func had open
Local(e, t) ==
    /\ inv' = [inv EXCEPT ![e] = t]
    /\ inodes' = Sweep(inodes, dir, inv')

\* zip.start_file(format!("{}_{}.jpg", item_code, i + 1), zip_options)
StartFile(e, next) ==
    \E res \in {"ok", "err"} :
      LET s == inv[e]
          name == PhotoEntryName(s.item_code, s.i + 1)
          l == Logged(s, "start_file", name, res)
      IN IF res = "ok"
         THEN ZipWrite(e, [l EXCEPT !.pc = next, !.zip_files = Append(@, name)],
                       <<"hdr", name>>)
         ELSE Local(e, Cleanup(l, "error", "error when zip start file error"))

\* zip.write_all(&image_byte), then the next turn of the loop
WriteAll(e, body, after) ==
    \E res \in {"ok", "err"} :
      LET s == inv[e]
          bytes == s.image_bytes[s.i + 1]
          l == Logged(s, "write_all", bytes, res)
      IN IF res = "ok"
         THEN ZipWrite(e, ArchiveLoop([l EXCEPT !.i = @ + 1], body, after),
                       <<"data", bytes>>)
         ELSE Local(e, Cleanup(l, "error", "error when zip write file error"))

\* zip.finish(): the central directory of the entries started
Finish(e, next) ==
    \E res \in {"ok", "err"} :
      LET s == inv[e]
          l == Logged(s, "finish", s.zip_files, res)
      IN IF res = "ok"
         THEN ZipWrite(e, [l EXCEPT !.pc = next], <<"cd", s.zip_files>>)
         ELSE Local(e, Cleanup(l, "error", "error when zip finish error"))

\* File::open(&zip_file_path): fails when no file has that path
OpenResults(s) ==
    IF dir[ZipFilePath(s.item_code)] = 0 THEN {"err"} ELSE {"ok", "err"}

\* variant: an object already stored under the key is kept
Put_KeepExisting(e, message) ==
    \E res \in {"ok", "err"} :
      LET s == inv[e]
          key == OutKey(s.item_code)
          l == Logged(s, "put_object", <<key, s.zip_file_buf>>, res)
      IN IF res = "ok"
         THEN /\ out' = IF out[key].some THEN out
                        ELSE [out EXCEPT ![key] = Some(s.zip_file_buf)]
              /\ inv' = [inv EXCEPT ![e] = Cleanup(l, "ok", "")]
         ELSE /\ inv' = [inv EXCEPT ![e] = Cleanup(l, "error", message)]
              /\ UNCHANGED out

\* variant: the test of the put_object result is inverted
Put_Inverted(e, message) ==
    \E res \in {"ok", "err"} :
      LET s == inv[e]
          key == OutKey(s.item_code)
          l == Logged(s, "put_object", <<key, s.zip_file_buf>>, res)
      IN IF res = "ok"
         THEN /\ out' = [out EXCEPT ![key] = Some(s.zip_file_buf)]
              /\ inv' = [inv EXCEPT ![e] = Cleanup(l, "error", message)]
         ELSE /\ inv' = [inv EXCEPT ![e] = Cleanup(l, "ok", "")]
              /\ UNCHANGED out

\* s3_client.put_object(put_request): both outcomes go on to remove_file
Put(e, message) ==
    \E res \in {"ok", "err"} :
      LET s == inv[e]
          key == OutKey(s.item_code)
          l == Logged(s, "put_object", <<key, s.zip_file_buf>>, res)
      IN IF res = "ok"
         THEN /\ out' = [out EXCEPT ![key] = Some(s.zip_file_buf)]
              /\ inv' = [inv EXCEPT ![e] = Cleanup(l, "ok", "")]
         ELSE /\ inv' = [inv EXCEPT ![e] = Cleanup(l, "error", message)]
              /\ UNCHANGED out

\* std::fs::remove_file(zip_file_path).unwrap(), then return the response
RemoveResults(s) ==
    IF dir[ZipFilePath(s.item_code)] = 0 THEN {"err"} ELSE {"ok", "err"}

\* variant: the response is returned and the scratch file is left in place
Remove_Skipped(e) ==
    /\ inv[e].pc = "Remove"
    /\ inv' = [inv EXCEPT ![e] =
                 Return(inv[e], inv[e].pending.v.result, inv[e].pending.v.message)]
    /\ UNCHANGED <<dir, inodes, out, events>>

Remove(e) ==
    /\ inv[e].pc = "Remove"
    /\ \E res \in RemoveResults(inv[e]) :
         LET s == inv[e]
             path == ZipFilePath(s.item_code)
             l == Logged(s, "remove_file", path, res)
         IN IF res = "ok"
            THEN /\ dir' = [dir EXCEPT ![path] = 0]
                 /\ inv' = [inv EXCEPT ![e] =
                      Return(l, l.pending.v.result, l.pending.v.message)]
            ELSE /\ inv' = [inv EXCEPT ![e] = Panic(l)]
                 /\ UNCHANGED dir
    /\ inodes' = Sweep(inodes, dir', inv')
    /\ UNCHANGED <<out, events>>

----------------------------------------------------------------------------
(* The branch taken when the request has no body: lines 129-214 *)

NB_Create(e) ==
    /\ inv[e].pc = "NB_Create"
    /\ Create(e, "NB")
    /\ UNCHANGED <<out, events>>

NB_StartFile(e) ==
    /\ inv[e].pc = "NB_StartFile"
    /\ StartFile(e, "NB_WriteAll")
    /\ UNCHANGED <<dir, out, events>>

NB_WriteAll(e) ==
    /\ inv[e].pc = "NB_WriteAll"
    /\ WriteAll(e, "NB_StartFile", "NB_Finish")
    /\ UNCHANGED <<dir, out, events>>

NB_Finish(e) ==
    /\ inv[e].pc = "NB_Finish"
    /\ Finish(e, "NB_Metadata")
    /\ UNCHANGED <<dir, out, events>>

\* zip_file.metadata().unwrap()
NB_Metadata(e) ==
    /\ inv[e].pc = "NB_Metadata"
    /\ \E res \in {"ok", "err"} :
         LET l == Logged(inv[e], "metadata", <<>>, res) IN
         Local(e, IF res = "ok" THEN [l EXCEPT !.pc = "NB_Open"] ELSE Panic(l))
    /\ UNCHANGED <<dir, out, events>>

\* the error arm returns without remove_file
NB_AfterOpen(s, res) ==
    LET path == ZipFilePath(s.item_code)
        l == Logged(s, "File::open", path, res)
    IN IF res = "ok" THEN [l EXCEPT !.pc = "NB_Read", !.reader = dir[path]]
       ELSE Return(l, "error", "error when open file error")

NB_Open(e) ==
    /\ inv[e].pc = "NB_Open"
    /\ \E res \in OpenResults(inv[e]) : Local(e, NB_AfterOpen(inv[e], res))
    /\ UNCHANGED <<dir, out, events>>

\* the error arm returns without remove_file
NB_AfterRead(s, res) ==
    LET l == Logged(s, "read_to_end", <<>>, res) IN
    IF res = "ok" THEN [l EXCEPT !.pc = "NB_Put", !.zip_file_buf = inodes[s.reader]]
    ELSE Return(l, "error", "error when read zip file")

NB_Read(e) ==
    /\ inv[e].pc = "NB_Read"
    /\ \E res \in {"ok", "err"} : Local(e, NB_AfterRead(inv[e], res))
    /\ UNCHANGED <<dir, out, events>>

NB_Put(e) ==
    /\ inv[e].pc = "NB_Put"
    /\ Put(e, "error when put image")
    /\ UNCHANGED <<dir, inodes, events>>

----------------------------------------------------------------------------
(* The branch taken when the request has a body: lines 216-364 *)

\* get_font_file("TaipeiSansTCBeta-Light.ttf", &s3_client), then the match on
\* item_size.size_table
AfterGetFont(s, res) ==
    LET l == Logged(s, "get_font_file", <<"TaipeiSansTCBeta-Light.ttf">>, res) IN
    IF res = "ok"
        THEN [l EXCEPT !.font_bytes = FontBytes,
                       !.pc = IF s.item_size_opt.v.size_table.some
                                  THEN "TableBase" ELSE "TextImage"]
    ELSE Return(l, "error", "can not found font file")

GetFont(e) ==
    /\ inv[e].pc = "GetFont"
    /\ \E res \in {"ok", "err"} : Local(e, AfterGetFont(inv[e], res))
    /\ UNCHANGED <<dir, out, events>>

\* TableBase::new(table_head, size_table.body, 2)
AfterTableBase(s, res) ==
    LET item_size == s.item_size_opt.v
        table_head == TableHead(item_size.size_zh)
        l == Logged(s, "TableBase::new",
                    <<table_head, item_size.size_table.v.body, 2>>, res)
    IN IF res = "ok"
       THEN [l EXCEPT !.pc = "TableImage",
                      !.table_base = <<table_head, item_size.size_table.v.body, 2>>]
       ELSE Return(l, "error", "error when create table base error")

TableBase(e) ==
    /\ inv[e].pc = "TableBase"
    /\ \E res \in {"ok", "err"} : Local(e, AfterTableBase(inv[e], res))
    /\ UNCHANGED <<dir, out, events>>

\* processor.create_table_image(table_base, &font_bytes)
AfterTableImage(s, res) ==
    LET l == Logged(s, "create_table_image", <<s.table_base, s.font_bytes>>, res) IN
    IF res = "ok"
        THEN [l EXCEPT !.pc = "B_Create",
                       !.size_image_bytes =
                           TableImage(s.table_base[1], s.table_base[2], s.font_bytes)]
    ELSE Return(l, "error", "error when create table image error")

CreateTableImage(e) ==
    /\ inv[e].pc = "TableImage"
    /\ \E res \in {"ok", "err"} : Local(e, AfterTableImage(inv[e], res))
    /\ UNCHANGED <<dir, out, events>>

\* processor.create_text_image(&text, &font_bytes)
AfterTextImage(s, res) ==
    LET text == LineText(s.item_size_opt.v.size_zh)
        l == Logged(s, "create_text_image", <<text, s.font_bytes>>, res)
    IN IF res = "ok"
       THEN [l EXCEPT !.pc = "B_Create",
                      !.size_image_bytes = TextImage(text, s.font_bytes)]
       ELSE Return(l, "error", "error when create text image error")

CreateTextImage(e) ==
    /\ inv[e].pc = "TextImage"
    /\ \E res \in {"ok", "err"} : Local(e, AfterTextImage(inv[e], res))
    /\ UNCHANGED <<dir, out, events>>

B_Create(e) ==
    /\ inv[e].pc = "B_Create"
    /\ Create(e, "B")
    /\ UNCHANGED <<out, events>>

B_StartFile(e) ==
    /\ inv[e].pc = "B_StartFile"
    /\ StartFile(e, "B_WriteAll")
    /\ UNCHANGED <<dir, out, events>>

B_WriteAll(e) ==
    /\ inv[e].pc = "B_WriteAll"
    /\ WriteAll(e, "B_StartFile", "B_SizeStart")
    /\ UNCHANGED <<dir, out, events>>

\* zip.start_file(format!("{}_size.jpg", item_code), zip_options)
B_SizeStart(e) ==
    /\ inv[e].pc = "B_SizeStart"
    /\ \E res \in {"ok", "err"} :
         LET s == inv[e]
             name == SizeEntryName(s.item_code)
             l == Logged(s, "start_file", name, res)
         IN IF res = "ok"
            THEN ZipWrite(e, [l EXCEPT !.pc = "B_SizeWrite",
                                       !.zip_files = Append(@, name)],
                          <<"hdr", name>>)
            ELSE Local(e, Cleanup(l, "error", "error when zip start file error"))
    /\ UNCHANGED <<dir, out, events>>

\* zip.write_all(&size_image_bytes)
B_SizeWrite(e) ==
    /\ inv[e].pc = "B_SizeWrite"
    /\ \E res \in {"ok", "err"} :
         LET s == inv[e]
             l == Logged(s, "write_all", s.size_image_bytes, res)
         IN IF res = "ok"
            THEN ZipWrite(e, [l EXCEPT !.pc = "B_Finish"],
                          <<"data", s.size_image_bytes>>)
            ELSE Local(e, Cleanup(l, "error", "error when zip write file error"))
    /\ UNCHANGED <<dir, out, events>>

B_Finish(e) ==
    /\ inv[e].pc = "B_Finish"
    /\ Finish(e, "B_Open")
    /\ UNCHANGED <<dir, out, events>>

\* the error arm returns without remove_file
B_AfterOpen(s, res) ==
    LET path == ZipFilePath(s.item_code)
        l == Logged(s, "File::open", path, res)
    IN IF res = "ok" THEN [l EXCEPT !.pc = "B_Read", !.reader = dir[path]]
       ELSE Return(l, "error", "error when create zip file")

B_Open(e) ==
    /\ inv[e].pc = "B_Open"
    /\ \E res \in OpenResults(inv[e]) : Local(e, B_AfterOpen(inv[e], res))
    /\ UNCHANGED <<dir, out, events>>

\* the error arm calls remove_file
B_AfterRead(s, res) ==
    LET l == Logged(s, "read_to_end", <<>>, res) IN
    IF res = "ok" THEN [l EXCEPT !.pc = "B_Put", !.zip_file_buf = inodes[s.reader]]
    ELSE Cleanup(l, "error", "error when reading zip file")

B_Read(e) ==
    /\ inv[e].pc = "B_Read"
    /\ \E res \in {"ok", "err"} : Local(e, B_AfterRead(inv[e], res))
    /\ UNCHANGED <<dir, out, events>>

\* variant: the body branch returns a put_object failure without remove_file
B_Put_NoCleanup(e) ==
    /\ inv[e].pc = "B_Put"
    /\ \E res \in {"ok", "err"} :
         LET s == inv[e]
             key == OutKey(s.item_code)
             l == Logged(s, "put_object", <<key, s.zip_file_buf>>, res)
         IN IF res = "ok"
            THEN /\ out' = [out EXCEPT ![key] = Some(s.zip_file_buf)]
                 /\ inv' = [inv EXCEPT ![e] = Cleanup(l, "ok", "")]
                 /\ inodes' = inodes
            ELSE /\ Local(e, Return(l, "error", "put file error"))
                 /\ UNCHANGED out
    /\ UNCHANGED <<dir, events>>

B_Put(e) ==
    /\ inv[e].pc = "B_Put"
    /\ Put(e, "put file error")
    /\ UNCHANGED <<dir, inodes, events>>

----------------------------------------------------------------------------
(* Specifications *)

Step(e) ==
    \/ Decode(e)
    \/ GetObject(e)
    \/ ReadBody(e)
    \/ NB_Create(e)
    \/ NB_StartFile(e)
    \/ NB_WriteAll(e)
    \/ NB_Finish(e)
    \/ NB_Metadata(e)
    \/ NB_Open(e)
    \/ NB_Read(e)
    \/ NB_Put(e)
    \/ GetFont(e)
    \/ TableBase(e)
    \/ CreateTableImage(e)
    \/ CreateTextImage(e)
    \/ B_Create(e)
    \/ B_StartFile(e)
    \/ B_WriteAll(e)
    \/ B_SizeStart(e)
    \/ B_SizeWrite(e)
    \/ B_Finish(e)
    \/ B_Open(e)
    \/ B_Read(e)
    \/ B_Put(e)
    \/ Remove(e)

\* the runtime has taken the outcome of func; the environment waits for the
\* next event
Recycle(e) ==
    /\ inv[e].pc \in {"Done", "Failed", "Panicked"}
    /\ inv' = [inv EXCEPT ![e] = Idle]
    /\ UNCHANGED <<dir, inodes, out, events>>

\* events arrive one at a time: an event is delivered when no invocation runs,
\* to the first environment
InvokeAlone(e) ==
    /\ \A f \in Envs : inv[f].pc = "Idle" /\ e <= f
    /\ Invoke(e, Payloads)

Next == \E e \in Envs : InvokeAlone(e) \/ Step(e) \/ Recycle(e)

Spec == Init /\ [][Next]_vars

(* The render stage over every short size_zh: requests without photos, from *)
(* their arrival to the rendered size image.                               *)
Chars == {"S", " ", "\t", ",", FWCOMMA, IDCOMMA}
Strings == UNION {[1..n -> Chars] : n \in 0..MaxLen}
    \cup {<<"S", FWCOMMA, "M", FWCOMMA, "L">>}

RenderPayloads ==
    [item_code : {JStr(c) : c \in Codes},
     image_count : {JNum(0)},
     body : {JSize(t, zh) : t \in {None} \cup {Some(tb) : tb \in SizeTables},
                            zh \in Strings}]

InvokeRender(e) ==
    /\ \A f \in Envs : inv[f].pc = "Idle" /\ e <= f
    /\ Invoke(e, RenderPayloads)

NextRender ==
    \E e \in Envs :
      \/ InvokeRender(e)
      \/ Decode(e)
      \/ GetFont(e)
      \/ TableBase(e)
      \/ CreateTableImage(e)
      \/ CreateTextImage(e)

SpecRender == Init /\ [][NextRender]_vars

\* events may arrive while other invocations run
ConcPayloads ==
    [item_code : {JStr(c) : c \in Codes},
     image_count : {JNum(0), JNum(1)},
     body : Bodies \ {Absent, JBad}]

InvokeConc(e) == Invoke(e, ConcPayloads)

NextConc == \E e \in Envs : InvokeConc(e) \/ Step(e) \/ Recycle(e)

SpecConc == Init /\ [][NextConc]_vars

----------------------------------------------------------------------------
(* Reading the record of an invocation *)

Calls(s, ops) == {k \in 1..Len(s.log) : s.log[k].op \in ops}
Failures(s, ops) == {k \in Calls(s, ops) : s.log[k].res = "err"}

Returned(s) == s.pc \in {"Done", "Failed"}
Ended(s) == s.pc \in {"Done", "Failed", "Panicked"}

\* File::create succeeded in this invocation
Created(s) == \E k \in Calls(s, {"File::create"}) : s.log[k].res = "ok"

RetrievalOps == {"get_object", "read_body"}
RenderOps == {"get_font_file", "TableBase::new", "create_table_image",
              "create_text_image"}
ArchiveOps == {"start_file", "write_all", "finish"}
PublishOps == {"put_object"}

\* the request decodes: func reaches the retrieval loop
ValidRequest(p) ==
    /\ p.item_code.t = "str"
    /\ ParseU32(p.image_count).some
    /\ p.body.t \in {"null", "obj"}

\* the slots whose photo was retrieved, in the order of retrieval
RECURSIVE RetrievedFrom(_)
RetrievedFrom(l) ==
    IF l = <<>> THEN <<>>
    ELSE (IF Head(l).op = "read_body" /\ Head(l).res = "ok"
            THEN <<Head(l).arg[3]>> ELSE <<>>) \o RetrievedFrom(Tail(l))

Retrieved(s) == RetrievedFrom(s.log)

\* the object bodies handed to put_object
PutBodies(s) == {s.log[k].arg[2] : k \in Calls(s, PublishOps)}

(* An archive is read as the zip format lays it out: a header and a data   *)
(* record per entry, then the central directory naming the entries.        *)
EntryCount(c) == (Len(c) - 1) \div 2
EntryName(c, j) == c[2 * j - 1][2]
EntryBytes(c, j) == c[2 * j][2]

WellFormed(c) ==
    /\ Len(c) % 2 = 1
    /\ c[Len(c)][1] = "cd"
    /\ \A j \in 1..EntryCount(c) : c[2 * j - 1][1] = "hdr" /\ c[2 * j][1] = "data"
    /\ c[Len(c)][2] = [j \in 1..EntryCount(c) |-> EntryName(c, j)]

IsSizeName(name) == Len(name) = 2 /\ name[2] = "_size.jpg"
IsPhotoName(name) == Len(name) = 4 /\ name[4] = ".jpg"

PhotoEntries(c) == {j \in 1..EntryCount(c) : IsPhotoName(EntryName(c, j))}
SizeEntries(c) == {j \in 1..EntryCount(c) : IsSizeName(EntryName(c, j))}

----------------------------------------------------------------------------
(* Claims *)

\* C1: an invocation that created the scratch file /mnt/phdb/{item_code}_images.zip
\* and returned (ok or error) has left no file at that path.
C1_ScratchGoneOnReturn ==
    \A e \in Envs :
      Returned(inv[e]) /\ Created(inv[e])
        => dir[ZipFilePath(inv[e].item_code)] = 0

\* C2: an invocation in which a retrieval, render, archive or publish call failed
\* fatally has ended with the Failure outcome (result "error"), and the scratch
\* file it created is gone.
C2_FatalErrorFailsClean ==
    \A e \in Envs :
      LET s == inv[e] IN
      Ended(s) /\ Failures(s, RetrievalOps \cup RenderOps \cup ArchiveOps
                                \cup PublishOps) # {}
        => /\ s.pc = "Failed"
           /\ s.response.some /\ s.response.v.result = "error"
           /\ Created(s) => dir[ZipFilePath(s.item_code)] = 0

\* C3: an invocation that ended with the Failure outcome without a failed
\* put_object never called put_object, and the output bucket is as it was when
\* the event arrived.
C3_NoPublishOnEarlyFailure ==
    \A e \in Envs :
      LET s == inv[e] IN
      s.pc = "Failed" /\ Failures(s, PublishOps) = {}
        => Calls(s, PublishOps) = {} /\ out = s.out_before

\* C3 witness: a failure after the scratch file was created, with a bundle of an
\* earlier invocation in the bucket.
C3_Witness ==
    \E e \in Envs :
      LET s == inv[e] IN
      /\ s.pc = "Failed" /\ Failures(s, PublishOps) = {}
      /\ Created(s)
      /\ Failures(s, ArchiveOps) # {}
      /\ s.out_before[OutKey(s.item_code)].some

\* the archive an invocation builds from what it retrieved and rendered
RECURSIVE PhotoUnits(_, _, _)
PhotoUnits(code, slots, j) ==
    IF j > Len(slots) THEN <<>>
    ELSE << <<"hdr", <<code, "_", j, ".jpg">> >>,
            <<"data", <<"jpeg", code, slots[j]>> >> >>
           \o PhotoUnits(code, slots, j + 1)

OwnArchive(s) ==
    LET photos == PhotoUnits(s.item_code, Retrieved(s), 1)
        size == IF s.item_size_opt.some
                  THEN << <<"hdr", <<s.item_code, "_size.jpg">> >>,
                          <<"data", s.size_image_bytes>> >>
                  ELSE <<>>
        units == photos \o size
    IN units \o << <<"cd", [j \in 1..(Len(units) \div 2) |-> units[2 * j - 1][2]]>> >>

\* C4: invocations that run at the same time do not share a scratch file: no two
\* of them have the same file open, the path of a running invocation's scratch
\* file still names the file it created, and every archive handed to put_object
\* is the one its invocation built.
C4_InvocationsIndependent ==
    \A e \in Envs :
      LET s == inv[e] IN
      /\ \A f \in Envs \ {e} :
           Running(e) /\ Running(f) /\ s.zip_file # 0 => inv[f].zip_file # s.zip_file
      /\ Running(e) /\ s.zip_file # 0 => dir[ZipFilePath(s.item_code)] = s.zip_file
      /\ \A body \in PutBodies(s) : body = OwnArchive(s)

\* C5: when every call of an invocation succeeded, apart from get_object calls
\* answered NoSuchKey, the invocation returned "ok" and published one archive
\* whose photo entries are as many as the slots retrieved: image_count less the
\* absent slots.
C5_AbsentSlotsTolerated ==
    \A e \in Envs :
      LET s == inv[e] IN
      /\ Ended(s)
      /\ ValidRequest(s.payload)
      /\ \A k \in 1..Len(s.log) : s.log[k].res \in {"ok", "NoSuchKey"}
      => /\ s.pc = "Done"
         /\ s.response = Response("ok", "")
         /\ Cardinality(PutBodies(s)) = 1
         /\ \A body \in PutBodies(s) :
              /\ WellFormed(body)
              /\ Cardinality(PhotoEntries(body)) = Len(Retrieved(s))
              /\ Len(Retrieved(s)) = s.image_count
                   - Cardinality({k \in Calls(s, {"get_object"}) :
                                     s.log[k].res = "NoSuchKey"})
              /\ out[OutKey(s.item_code)] = Some(body)

\* C5 witness: an invocation for two slots, one absent and one retrieved, is
\* done.
C5_Witness ==
    \E e \in Envs :
      LET s == inv[e] IN
      /\ s.pc = "Done"
      /\ s.image_count = 2
      /\ Len(Retrieved(s)) = 1
      /\ \E k \in Calls(s, {"get_object"}) : s.log[k].res = "NoSuchKey"

\* C6: in every archive handed to put_object the photo entries are entries
\* 1..k, k the number of slots retrieved; entry j is named {item_code}_{j}.jpg
\* and holds the bytes of the j-th retrieved slot, slots taken in ascending
\* order.
C6_DenseNamesInSlotOrder ==
    \A e \in Envs :
      LET s == inv[e]
          r == Retrieved(s)
      IN /\ \A j, k \in 1..Len(r) : j < k => r[j] < r[k]
         /\ \A body \in PutBodies(s) :
              /\ PhotoEntries(body) = 1..Len(r)
              /\ \A j \in 1..Len(r) :
                   /\ EntryName(body, j) = <<s.item_code, "_", j, ".jpg">>
                   /\ EntryBytes(body, j) = <<"jpeg", s.item_code, r[j]>>

\* C6 witness: slot 1 absent and slot 2 retrieved, so that entry 1 of the
\* published archive holds the photo of slot 2.
C6_Witness ==
    \E e \in Envs :
      LET s == inv[e] IN
      /\ s.pc = "Done"
      /\ Retrieved(s) = <<2>>
      /\ \E body \in PutBodies(s) : EntryBytes(body, 1) = PhotoBytes(s.item_code, 2)

\* C7: a get_object answered with an error other than NoSuchKey is the last
\* call of its invocation, which ended with the Failure outcome: only photo
\* fetches of lower slots came before it, and no font fetch, render call,
\* scratch file or put_object came at all.
C7_RetrievalErrorAborts ==
    \A e \in Envs :
      LET s == inv[e] IN
      \A k \in Failures(s, {"get_object"}) :
        /\ k = Len(s.log)
        /\ s.pc = "Failed"
        /\ s.response.some /\ s.response.v.result = "error"
        /\ \A j \in 1..(k - 1) :
             /\ s.log[j].op \in RetrievalOps
             /\ s.log[j].arg[3] < s.log[k].arg[3]
        /\ s.zip_file = 0
        /\ out = s.out_before

\* C7 witness: the fetch of slot 1 of 2 failed, and slot 2 was never fetched.
C7_Witness ==
    \E e \in Envs :
      LET s == inv[e] IN
      /\ s.image_count = 2
      /\ s.pc = "Failed"
      /\ \E k \in Failures(s, {"get_object"}) : s.log[k].arg[3] = 1

\* C8: when the request has a body, every archive handed to put_object has
\* exactly one entry named {item_code}_size.jpg, and it is the last entry; a
\* failed font fetch or render call is the last call of its invocation, which
\* ended with the Failure outcome and never created the scratch file.
C8_SizeEntryAlwaysPublished ==
    \A e \in Envs :
      LET s == inv[e] IN
      /\ s.item_size_opt.some =>
           \A body \in PutBodies(s) \cup
                         (IF s.pc = "B_Put" THEN {s.zip_file_buf} ELSE {}) :
             /\ WellFormed(body)
             /\ SizeEntries(body) = {EntryCount(body)}
             /\ EntryName(body, EntryCount(body)) = <<s.item_code, "_size.jpg">>
             /\ EntryBytes(body, EntryCount(body)) = s.size_image_bytes
             /\ s.size_image_bytes # <<>>
      /\ \A k \in Failures(s, RenderOps) :
           /\ k = Len(s.log)
           /\ s.pc = "Failed"
           /\ ~Created(s)

\* C8 witness: a request with a body and two photos was published.
C8_Witness ==
    \E e \in Envs :
      LET s == inv[e] IN
      /\ s.item_size_opt.some
      /\ s.pc = "Done"
      /\ Len(Retrieved(s)) = 2

\* C9: when body is null the invocation fetches no font and makes no render
\* call, and no {item_code}_size.jpg entry is started, written to the scratch
\* file or handed to put_object.
C9_NoBodyNoSizeImage ==
    \A e \in Envs :
      LET s == inv[e] IN
      s.pc # "Idle" /\ s.payload.body.t = "null"
        => /\ Calls(s, RenderOps) = {}
           /\ \A k \in 1..Len(s.zip_files) : ~IsSizeName(s.zip_files[k])
           /\ \A k \in Calls(s, {"start_file"}) : ~IsSizeName(s.log[k].arg)
           /\ \A body \in PutBodies(s) : WellFormed(body) /\ SizeEntries(body) = {}

\* C9 witness: a request with a null body and photos was published.
C9_Witness ==
    \E e \in Envs :
      LET s == inv[e] IN
      /\ s.payload.body.t = "null"
      /\ s.pc = "Done"
      /\ s.image_count = 2
      /\ Len(Retrieved(s)) = 1

\* C10: no invocation ends outside the two outcomes Done and Failed: func never
\* aborts without returning a result.
C10_NoAbort ==
    \A e \in Envs : inv[e].pc # "Panicked"

\* C11: a request without a body field is served like one whose body is null:
\* when every call succeeded (NoSuchKey answers apart) the invocation is done,
\* having made no font fetch or render call and published an archive without
\* a size entry.
C11_MissingBodyLikeNull ==
    \A e \in Envs :
      LET s == inv[e] IN
      /\ Ended(s)
      /\ s.payload.item_code.t = "str"
      /\ ParseU32(s.payload.image_count).some
      /\ s.payload.body.t = "absent"
      /\ \A k \in 1..Len(s.log) : s.log[k].res \in {"ok", "NoSuchKey"}
      => /\ s.pc = "Done"
         /\ s.response = Response("ok", "")
         /\ Calls(s, RenderOps) = {}
         /\ \A body \in PutBodies(s) : WellFormed(body) /\ SizeEntries(body) = {}

\* C12: every put_object is to key {item_code}.zip, and the bucket a done
\* invocation leaves holds, under that key, the archive built from what this
\* invocation retrieved and rendered, whatever was there before: a second run
\* with the same request and answers leaves what the first left.
C12_PublishIdempotent ==
    \A e \in Envs :
      LET s == inv[e] IN
      /\ \A k \in Calls(s, PublishOps) : s.log[k].arg[1] = <<s.item_code, ".zip">>
      /\ s.pc = "Done" =>
           out = [s.out_before EXCEPT
                    ![<<s.item_code, ".zip">>] = Some(OwnArchive(s))]

\* C12 witness: a done invocation that replaced a different bundle published
\* by an earlier invocation.
C12_Witness ==
    \E e \in Envs :
      LET s == inv[e]
          key == <<s.item_code, ".zip">>
      IN /\ s.pc = "Done"
         /\ s.out_before[key].some
         /\ s.out_before[key] # out[key]
         /\ Len(Retrieved(s)) = 1

\* the tokens of a string: the longest runs of characters that are neither
\* separators nor whitespace
RECURSIVE TokensFrom(_, _)
TokensFrom(s, cur) ==
    IF s = <<>> THEN (IF cur = <<>> THEN <<>> ELSE <<cur>>)
    ELSE IF Head(s) \in SEPARATOR_PATTERN \cup Whitespace
        THEN (IF cur = <<>> THEN <<>> ELSE <<cur>>) \o TokensFrom(Tail(s), <<>>)
    ELSE TokensFrom(Tail(s), Append(cur, Head(s)))

Tokens(s) == TokensFrom(s, <<>>)

\* C13: the header sequence handed to TableBase::new is the sequence of
\* non-empty tokens of size_zh, split at separators and whitespace: no header
\* is empty, and the head field of the request is not used.
C13_TableHeadIsTokens ==
    \A e \in Envs :
      LET s == inv[e] IN
      \A k \in Calls(s, {"TableBase::new"}) :
        /\ s.log[k].arg[1] = Tokens(s.payload.body.size_zh)
        /\ \A j \in 1..Len(s.log[k].arg[1]) : s.log[k].arg[1][j] # <<>>

\* the text the claim describes: every separator of a string becomes one space
ReplacedBySpace(s) ==
    [j \in 1..Len(s) |-> IF s[j] \in SEPARATOR_PATTERN THEN " " ELSE s[j]]

\* C16: an invocation whose request has a body makes at most one render call,
\* and exactly one once the font is fetched and the render stage is over:
\* create_table_image when size_table is present, create_text_image when it is
\* absent; the text handed to create_text_image is the trimmed size_zh with
\* every separator turned into one space, and it neither begins nor ends with
\* a space.
C16_OneRenderCallTrimmedText ==
    \A e \in Envs :
      LET s == inv[e]
          tables == Calls(s, {"create_table_image"})
          texts == Calls(s, {"create_text_image"})
      IN s.item_size_opt.some =>
         /\ Cardinality(tables \cup texts) <= 1
         /\ s.pc = "B_Create" => Cardinality(tables \cup texts) = 1
         /\ tables # {} => s.item_size_opt.v.size_table.some
         /\ texts # {} => ~s.item_size_opt.v.size_table.some
         /\ \A k \in texts :
              LET text == s.log[k].arg[1] IN
              /\ text = ReplacedBySpace(Trim(s.item_size_opt.v.size_zh))
              /\ text # <<>> => text[1] # " " /\ text[Len(text)] # " "

\* the non-negative integer that the content of a JSON number or of a JSON
\* string of one digit denotes, None when the content denotes none
DigitValue(c) == CASE c = "0" -> Some(0) [] c = "1" -> Some(1)
                   [] c = "2" -> Some(2) [] OTHER -> None
ContentAsCount(v) ==
    IF v.t = "num" THEN (IF v.n >= 0 THEN Some(v.n) ELSE None)
    ELSE IF v.t = "str" THEN DigitValue(v.s)
    ELSE None

\* C14: once a request with a string item_code, an image_count field and a
\* null or object body is decoded, an image_count whose content (JSON number
\* or JSON string) denotes a non-negative integer N makes the invocation go on
\* with slot count N, and any other image_count ends it as a failure with the
\* parse message before any storage call.
C14_CountAsNumberOrString ==
    \A e \in Envs :
      LET s == inv[e]
          p == s.payload
      IN (/\ s.pc \notin {"Idle", "Start"}
          /\ p.item_code.t = "str"
          /\ p.image_count.t # "absent"
          /\ p.body.t \in {"null", "obj"})
         => IF ContentAsCount(p.image_count).some
             THEN /\ s.image_count = ContentAsCount(p.image_count).v
                  /\ s.response # Response("error", "error when parse item count")
             ELSE /\ s.pc = "Failed"
                  /\ s.response = Response("error", "error when parse item count")
                  /\ s.log = <<>>

\* the stage an operation belongs to: 1 Retrieving, 2 Rendering, 3 Archiving,
\* 4 Publishing, 5 the removal of the scratch file
StageOf(op) ==
    CASE op \in RetrievalOps -> 1
      [] op \in RenderOps -> 2
      [] op \in {"File::create"} \cup ArchiveOps -> 3
      [] op \in {"metadata", "File::open", "read_to_end", "put_object"} -> 4
      [] OTHER -> 5

OnceOps == {"get_font_file", "TableBase::new", "File::create", "finish",
            "File::open", "read_to_end", "put_object", "remove_file"}

\* the slot a get_object or read_body call is about
SlotOf(call) == call.arg[3]

\* C15: the calls of one invocation follow the stage order Retrieving,
\* Rendering, Archiving, Publishing and never go back; get_object is issued
\* for ascending slots within 1..image_count, once per slot; everything after
\* retrieval happens only when every slot was fetched; the font fetch, the
\* render call, File::create, finish and put_object happen at most once, the
\* render stage only with a SizeSpec, File::create only after the render call
\* succeeded, put_object only after finish succeeded; after a failed call
\* nothing but the removal of the scratch file follows.
C15_StagesInOrder ==
    \A e \in Envs :
      LET s == inv[e]
          n == Len(s.log)
      IN /\ \A j, k \in 1..n :
              j < k =>
                /\ StageOf(s.log[j].op) <= StageOf(s.log[k].op)
                /\ s.log[j].op = "get_object" /\ s.log[k].op = "get_object"
                     => SlotOf(s.log[j]) < SlotOf(s.log[k])
                /\ s.log[j].res = "err" => s.log[k].op = "remove_file"
         /\ \A k \in Calls(s, {"get_object"}) : SlotOf(s.log[k]) \in 1..s.image_count
         /\ \A k \in 1..n :
              s.log[k].op \notin RetrievalOps
                => {SlotOf(s.log[j]) : j \in Calls(s, {"get_object"})} = 1..s.image_count
         /\ \A op \in OnceOps : Cardinality(Calls(s, {op})) <= 1
         /\ Cardinality(Calls(s, {"create_table_image", "create_text_image"})) <= 1
         /\ Calls(s, RenderOps) # {} => s.item_size_opt.some
         /\ \A k \in Calls(s, {"File::create"}) :
              s.item_size_opt.some
                => \E j \in Calls(s, {"create_table_image", "create_text_image"}) :
                     j < k /\ s.log[j].res = "ok"
         /\ \A k \in Calls(s, {"put_object"}) :
              \E j \in Calls(s, {"finish"}) : j < k /\ s.log[j].res = "ok"

C15_Witness ==
    \E e \in Envs :
      LET s == inv[e] IN
      /\ s.pc = "Done"
      /\ s.item_size_opt.some
      /\ Cardinality(Calls(s, {"get_object"})) = 2
      /\ Calls(s, {"get_font_file"}) # {}
      /\ Calls(s, {"put_object"}) # {}

\* C17: an invocation that returned "ok" made exactly one put_object call, it
\* succeeded, its key is {item_code}.zip and its body is the archive of the
\* photos this invocation retrieved (with the size entry when a SizeSpec was
\* supplied); the archive was read back before the put, the last call of the
\* invocation is a successful remove_file after the put, and the scratch path
\* names no file any more.
C17_OkOnlyAfterPutAndRemoval ==
    \A e \in Envs :
      LET s == inv[e]
          puts == Calls(s, {"put_object"})
          reads == Calls(s, {"read_to_end"})
          last == Len(s.log)
      IN s.pc = "Done" =>
           /\ s.response = Response("ok", "")
           /\ Cardinality(puts) = 1
           /\ \A k \in puts :
                /\ s.log[k].res = "ok"
                /\ s.log[k].arg = << <<s.item_code, ".zip">>, OwnArchive(s) >>
                /\ \E r \in reads : r < k /\ s.log[r].res = "ok"
                /\ k < last
           /\ s.log[last].op = "remove_file" /\ s.log[last].res = "ok"
           /\ \A m \in Calls(s, {"remove_file"}) : \A r \in reads : r < m
           /\ dir[<<"/mnt/phdb/", s.item_code, "_images.zip">>] = 0

C17_Witness ==
    \E e \in Envs :
      LET s == inv[e] IN
      /\ s.pc = "Done"
      /\ s.item_size_opt.some
      /\ Len(Retrieved(s)) = 2
      /\ s.log[Len(s.log)].op = "remove_file"

\* the entries an invocation wrote through the ZipWriter, as <<name, bytes>>
RECURSIVE WrittenFrom(_)
WrittenFrom(l) ==
    IF Len(l) < 2 THEN <<>>
    ELSE IF /\ l[1].op = "start_file" /\ l[1].res = "ok"
            /\ l[2].op = "write_all" /\ l[2].res = "ok"
        THEN << <<l[1].arg, l[2].arg>> >> \o WrittenFrom(Tail(Tail(l)))
    ELSE WrittenFrom(Tail(l))

\* the photo entries that follow from item_code and the retrieved slots alone
ExpectedPhotos(code, slots) ==
    [j \in 1..Len(slots) |-> << <<code, "_", j, ".jpg">>, <<"jpeg", code, slots[j]>> >>]

\* C18: in either branch the entries written before a successful finish are
\* the photo entries determined by item_code and the retrieved slots, followed
\* in the body branch by the one size entry and by nothing in the no-body
\* branch; every put_object is to key {item_code}.zip; and in either branch a
\* failed start_file, write_all, finish or put_object is followed by
\* remove_file and nothing else, after which the invocation has failed with
\* result "error", the scratch path names no file and the bucket is as the
\* invocation found it.
C18_BranchesAgree ==
    \A e \in Envs :
      LET s == inv[e]
          n == Len(s.log)
          key == <<s.item_code, ".zip">>
          size == IF s.item_size_opt.some
                    THEN << << <<s.item_code, "_size.jpg">>, s.size_image_bytes >> >>
                    ELSE <<>>
      IN /\ (\E k \in Calls(s, {"finish"}) : s.log[k].res = "ok")
              => WrittenFrom(s.log) = ExpectedPhotos(s.item_code, Retrieved(s)) \o size
         /\ \A k \in Calls(s, {"put_object"}) : s.log[k].arg[1] = key
         /\ \A k \in Failures(s, ArchiveOps \cup PublishOps) :
              /\ out = s.out_before
              /\ IF k = n
                   THEN s.pc = "Remove" /\ s.pending.some /\ s.pending.v.result = "error"
                   ELSE /\ k + 1 = n
                        /\ s.log[n].op = "remove_file"
                        /\ s.log[n].res = "ok" =>
                             /\ s.pc = "Failed"
                             /\ s.response.v.result = "error"
                             /\ dir[<<"/mnt/phdb/", s.item_code, "_images.zip">>] = 0

\* C18 witness: a body-branch invocation that wrote a photo entry and the size
\* entry, met a put_object failure and removed its scratch file.
C18_Witness ==
    \E e \in Envs :
      LET s == inv[e] IN
      /\ s.pc = "Failed"
      /\ s.item_size_opt.some
      /\ Len(WrittenFrom(s.log)) = 2
      /\ Failures(s, {"put_object"}) # {}
      /\ s.log[Len(s.log)].op = "remove_file"

\* C19: an invocation of a request that decodes, in which no photo was
\* retrieved (image_count is 0 or every slot was absent) and no call failed,
\* has not failed; every archive it hands to put_object has no photo entry
\* and holds the size entry alone exactly when a SizeSpec was supplied; and
\* once it is done it has returned "ok" and the bucket holds that archive
\* under {item_code}.zip, whatever was stored there before.
C19_EmptyBundlePublished ==
    \A e \in Envs :
      LET s == inv[e]
          key == <<s.item_code, ".zip">>
      IN (/\ s.pc \notin {"Idle", "Start"}
          /\ ValidRequest(s.payload)
          /\ Retrieved(s) = <<>>
          /\ Failures(s, {s.log[k].op : k \in 1..Len(s.log)}) = {})
         => /\ s.pc \notin {"Failed", "Panicked"}
            /\ \A body \in PutBodies(s) :
                 /\ WellFormed(body)
                 /\ PhotoEntries(body) = {}
                 /\ EntryCount(body) = IF s.item_size_opt.some THEN 1 ELSE 0
                 /\ s.item_size_opt.some =>
                      /\ EntryName(body, 1) = <<s.item_code, "_size.jpg">>
                      /\ EntryBytes(body, 1) = s.size_image_bytes
            /\ s.pc = "Done" =>
                 /\ s.response = Response("ok", "")
                 /\ Cardinality(PutBodies(s)) = 1
                 /\ \A body \in PutBodies(s) : out[key] = Some(body)

\* C19 witness: a done invocation with image_count 2 whose slots were both
\* absent, which replaced a bundle stored by an earlier invocation.
C19_Witness ==
    \E e \in Envs :
      LET s == inv[e] IN
      /\ s.pc = "Done"
      /\ s.image_count = 2
      /\ Cardinality(Calls(s, {"get_object"})) = 2
      /\ Retrieved(s) = <<>>
      /\ s.out_before[<<s.item_code, ".zip">>].some
      /\ s.out_before # out

====
